---- MODULE Spec2Model ----
\* Legal-document analysis pipeline (docgen_agent): section segmentation,
\* pattern detection, fairness scoring, recommendation synthesis and the
\* four-stage orchestration graph with its narrative collaborator.
EXTENDS Integers, Sequences, FiniteSets, TLC

\* ---------------------------------------------------------------- bounds
\* Documents hold at most MaxLines lines.
MaxLines == 2
\* The scorer and the recommender are exercised on maps whose categories
\* hold up to MaxFindings findings each.
MaxFindings == 1

\* ------------------------------------------------------------ text model
\* A document text is a sequence of lines (what content.split("\n") yields,
\* so at least one line); a line is a sequence of words separated by one
\* space. The empty text is the single blank line.
\* str.lower() on the words that occur in the texts and the pattern tables.
Lower(w) ==
    CASE w = "JAMS" -> "jams"
      [] w = "ID" -> "id"
      [] w = "GPS" -> "gps"
      [] w = "IP" -> "ip"
      [] w = "AI" -> "ai"
      [] w = "TERMS" -> "terms"
      [] w = "Summary:" -> "summary:"
      [] OTHER -> w

\* The sample lines documents are built from.
Lines ==
    { <<>>,
      <<"1.", "binding", "arbitration">>,
      <<"TERMS">>,
      <<"Summary:">>,
      <<"targeted", "advertising", "consequential", "damages", "no", "refunds">>,
      <<"location", "data", "sole", "discretion">>,
      <<"privacy", "policy", "data", "disclosure", "mediation", "transparency">>,
      <<"parental", "consent", "mediation">> }

RECURSIVE SeqsUpTo(_, _)
SeqsUpTo(S, n) ==
    IF n = 0 THEN {<<>>}
    ELSE LET shorter == SeqsUpTo(S, n - 1)
         IN  shorter \cup {Append(s, x) : s \in shorter, x \in S}

Documents == SeqsUpTo(Lines, MaxLines) \ {<<>>}

EmptyDocument == << <<>> >>

RISK_PATTERNS ==
    << [type |-> "mandatory_arbitration", patterns |-> <<
            <<"arbitration", "shall", "determined">>,
            <<"mandatory", "arbitration">>,
            <<"binding", "arbitration">>,
            <<"arbitration", "before", "arbitrator">>,
            <<"JAMS", "arbitration">>,
            <<"arbitration", "rules", "procedures">>,
            <<"judgment", "award", "court">>,
            <<"no", "right", "sue", "court">>,
            <<"waive", "right", "jury", "trial">> >>],
       [type |-> "broad_liability_waivers", patterns |-> <<
            <<"no", "liability", "damages">>,
            <<"limited", "liability", "maximum">>,
            <<"not", "liable", "any", "damages">>,
            <<"disclaim", "all", "warranties">>,
            <<"as", "is", "as", "available">>,
            <<"with", "all", "faults">>,
            <<"consequential", "damages">>,
            <<"punitive", "damages">>,
            <<"exemplary", "damages">>,
            <<"lost", "profits", "data">>,
            <<"business", "reputation">>,
            <<"intangible", "loss">> >>],
       [type |-> "broad_termination_rights", patterns |-> <<
            <<"terminate", "account", "without", "notice">>,
            <<"suspend", "account", "sole", "discretion">>,
            <<"delete", "account", "discretion">>,
            <<"violation", "terms", "terminate">>,
            <<"infringement", "rights", "terminate">>,
            <<"applicable", "laws", "terminate">>,
            <<"might", "constitute", "violation">>,
            <<"would", "constitute", "violation">> >>],
       [type |-> "automatic_renewal", patterns |-> <<
            <<"automatically", "renew">>,
            <<"auto", "renewal">>,
            <<"renew", "end", "period">>,
            <<"unless", "cancel", "before">>,
            <<"recurring", "subscription">>,
            <<"continuous", "billing">> >>],
       [type |-> "excessive_data_collection", patterns |-> <<
            <<"location", "data">>,
            <<"birth", "date", "photo">>,
            <<"ID", "photo">>,
            <<"personal", "data", "collect">>,
            <<"cookies", "tracking">>,
            <<"user", "information", "collect">>,
            <<"browsing", "history">>,
            <<"device", "information">>,
            <<"biometric", "identifiers">>,
            <<"faceprints", "voiceprints">>,
            <<"keystroke", "patterns">>,
            <<"clipboard", "information">>,
            <<"social", "network", "contacts">>,
            <<"phone", "contacts">>,
            <<"precise", "location">>,
            <<"GPS", "information">>,
            <<"metadata", "upload">>,
            <<"device", "identifiers">>,
            <<"advertising", "identifiers">>,
            <<"IP", "address", "geolocation">> >>],
       [type |-> "no_refunds", patterns |-> <<
            <<"no", "refunds">>,
            <<"non", "refundable">>,
            <<"all", "sales", "final">>,
            <<"no", "money", "back">>,
            <<"subscription", "non", "refundable">> >>],
       [type |-> "data_selling", patterns |-> <<
            <<"sell", "personal", "information">>,
            <<"share", "data", "third", "parties">>,
            <<"transfer", "data", "marketing">>,
            <<"disclose", "user", "information">>,
            <<"data", "marketing", "purposes">>,
            <<"advertisers", "share", "information">>,
            <<"business", "partners", "share">>,
            <<"cross", "context", "behavioral", "advertising">>,
            <<"targeted", "advertising">>,
            <<"personalized", "advertising">> >>],
       [type |-> "unilateral_changes", patterns |-> <<
            <<"change", "terms", "any", "time">>,
            <<"modify", "agreement", "notice">>,
            <<"update", "terms", "discretion">>,
            <<"reserve", "right", "change">>,
            <<"alter", "replace", "modify">>,
            <<"update", "privacy", "policy", "time">> >>],
       [type |-> "sole_discretion_clauses", patterns |-> <<
            <<"sole", "discretion">>,
            <<"our", "discretion">>,
            <<"company", "discretion">>,
            <<"reasonable", "discretion">>,
            <<"appropriate", "circumstances">> >>],
       [type |-> "waiver_of_rights", patterns |-> <<
            <<"waive", "all", "rights">>,
            <<"waive", "legal", "rights">>,
            <<"waive", "claims">>,
            <<"irrevocably", "waive">>,
            <<"waive", "any", "claim">> >>],
       [type |-> "extensive_data_sharing", patterns |-> <<
            <<"share", "with", "service", "providers">>,
            <<"share", "with", "business", "partners">>,
            <<"share", "with", "advertisers">>,
            <<"share", "with", "third", "parties">>,
            <<"corporate", "group", "entities">>,
            <<"affiliated", "entities">>,
            <<"global", "company">>,
            <<"international", "transfer">>,
            <<"cross", "border", "transfer">>,
            <<"servers", "outside", "united", "states">> >>],
       [type |-> "indefinite_data_retention", patterns |-> <<
            <<"retain", "as", "long", "necessary">>,
            <<"retain", "legitimate", "business", "interest">>,
            <<"retain", "legal", "obligations">>,
            <<"retain", "defense", "legal", "claims">>,
            <<"retain", "improve", "develop">>,
            <<"retain", "safety", "security">>,
            <<"retain", "violation", "terms">>,
            <<"keep", "information", "violation">>,
            <<"retention", "different", "criteria">>,
            <<"keep", "account", "long", "account">> >>],
       [type |-> "broad_data_use", patterns |-> <<
            <<"use", "advertising", "marketing">>,
            <<"use", "targeted", "advertising">>,
            <<"use", "personalized", "content">>,
            <<"use", "infer", "information">>,
            <<"use", "demographic", "classification">>,
            <<"use", "content", "recommendations">>,
            <<"use", "ad", "recommendations">>,
            <<"use", "machine", "learning">>,
            <<"use", "AI", "training">>,
            <<"use", "algorithm", "improvement">>,
            <<"use", "research", "purposes">>,
            <<"use", "analytics", "measurement">> >>],
       [type |-> "lack_of_user_control", patterns |-> <<
            <<"no", "opt", "out", "data", "collection">>,
            <<"cannot", "opt", "out", "tracking">>,
            <<"required", "data", "collection">>,
            <<"necessary", "for", "service">>,
            <<"cannot", "disable", "cookies">>,
            <<"cannot", "disable", "tracking">>,
            <<"cannot", "delete", "account">>,
            <<"cannot", "remove", "data">>,
            <<"limited", "data", "deletion">>,
            <<"partial", "data", "removal">> >>] >>

COMPLIANCE_PATTERNS ==
    << [type |-> "gdpr", patterns |-> <<
            <<"right", "to", "deletion">>,
            <<"data", "portability">>,
            <<"explicit", "consent">>,
            <<"data", "processing", "basis">>,
            <<"privacy", "policy">>,
            <<"data", "protection">>,
            <<"personal", "data", "rights">>,
            <<"lawful", "basis", "processing">>,
            <<"data", "subject", "rights">>,
            <<"privacy", "by", "design">> >>],
       [type |-> "coppa", patterns |-> <<
            <<"children", "under", "13">>,
            <<"parental", "consent">>,
            <<"collect", "child", "data">>,
            <<"age", "verification">>,
            <<"minor", "protection">>,
            <<"children", "privacy", "policy">>,
            <<"guardian", "guide">>,
            <<"parent", "controls">> >>],
       [type |-> "ccpa", patterns |-> <<
            <<"california", "privacy">>,
            <<"opt", "out", "sale">>,
            <<"right", "to", "know">>,
            <<"data", "disclosure">>,
            <<"privacy", "rights", "act">>,
            <<"california", "resident">>,
            <<"personal", "information", "request">>,
            <<"data", "access", "request">> >>],
       [type |-> "fair_terms", patterns |-> <<
            <<"reasonable", "notice">>,
            <<"due", "process">>,
            <<"appeal", "rights">>,
            <<"dispute", "resolution">>,
            <<"mediation">>,
            <<"fair", "terms">>,
            <<"user", "control">>,
            <<"data", "minimization">>,
            <<"purpose", "limitation">>,
            <<"storage", "limitation">> >>],
       [type |-> "privacy_best_practices", patterns |-> <<
            <<"data", "minimization">>,
            <<"purpose", "limitation">>,
            <<"storage", "limitation">>,
            <<"accuracy", "data">>,
            <<"confidentiality", "security">>,
            <<"accountability">>,
            <<"transparency">>,
            <<"user", "consent">>,
            <<"opt", "in", "consent">>,
            <<"granular", "consent">> >>] >>

\* ------------------------------------------------------ pattern detection
\* Character offset of the first character of line i in the text
\* (lines are joined by one newline, words by one space).
RECURSIVE LineLen(_)
LineLen(line) ==
    IF line = <<>> THEN 0
    ELSE IF Len(line) = 1 THEN Len(line[1])
    ELSE Len(line[1]) + 1 + LineLen(Tail(line))

RECURSIVE LineStart(_, _)
LineStart(content, i) ==
    IF i = 1 THEN 0
    ELSE LineStart(content, i - 1) + LineLen(content[i - 1]) + 1

\* len(content)
ContentLen(content) ==
    LineStart(content, Len(content)) + LineLen(content[Len(content)])

\* Offset of the first character of word j of line i.
WordStart(content, i, j) ==
    LineStart(content, i) + LineLen(SubSeq(content[i], 1, j - 1))
        + (IF j > 1 THEN 1 ELSE 0)

WordEnd(content, i, j) == WordStart(content, i, j) + Len(content[i][j])

Max(a, b) == IF a >= b THEN a ELSE b

Min(a, b) == IF a <= b THEN a ELSE b

MinOf(S) == CHOOSE x \in S : \A y \in S : x <= y

MaxOf(S) == CHOOSE x \in S : \A y \in S : x >= y

\* Whether the anchors k.. of a rule occur, in order, in the words p.. of a
\* line: the rule "a.*b" read on the lower-cased text with re.IGNORECASE
\* ("." does not cross a newline).
RECURSIVE AnchorsFrom(_, _, _, _)
AnchorsFrom(pattern, line, k, p) ==
    IF k > Len(pattern) THEN TRUE
    ELSE IF p > Len(line) THEN FALSE
    ELSE IF Lower(pattern[k]) = Lower(line[p])
         THEN AnchorsFrom(pattern, line, k + 1, p + 1)
         ELSE AnchorsFrom(pattern, line, k, p + 1)

MatchStartsAt(pattern, line, s) ==
    /\ Lower(pattern[1]) = Lower(line[s])
    /\ AnchorsFrom(pattern, line, 2, s + 1)

\* The greedy ".*" carries the match to the last occurrence of the last
\* anchor on the line.
MatchEnd(pattern, line, s) ==
    IF Len(pattern) = 1 THEN s
    ELSE MaxOf({e \in (s + 1)..Len(line) :
                   Lower(line[e]) = Lower(pattern[Len(pattern)])})

\* re.finditer on one line, scanning on from word p: the non-overlapping
\* matches, leftmost first.
RECURSIVE LineMatches(_, _, _)
LineMatches(pattern, line, p) ==
    LET starts == {s \in p..Len(line) : MatchStartsAt(pattern, line, s)}
    IN  IF starts = {} THEN <<>>
        ELSE LET s == MinOf(starts)
                 e == MatchEnd(pattern, line, s)
             IN  <<[first |-> s, last |-> e]>> \o LineMatches(pattern, line, e + 1)

\* The offsets of the characters of the text that are no whitespace: the
\* characters of its words.
WordChars(content) ==
    UNION {UNION {WordStart(content, i, j)..(WordEnd(content, i, j) - 1) :
                     j \in 1..Len(content[i])} :
              i \in 1..Len(content)}

\* content[start:end].strip(), as the bounds of the text that is left: the
\* slice without the whitespace at its two ends (the empty slice at start
\* when nothing is left).
Strip(content, start, end) ==
    LET kept == (start..(end - 1)) \cap WordChars(content)
    IN  IF kept = {} THEN <<start, start>>
        ELSE <<MinOf(kept), MaxOf(kept) + 1>>

\* One finding per match: the rule, the matched words (of the lower-cased
\* text) and the bounds of the context, content[start:end].strip(), the
\* window taken `window` characters around the match and clamped to the
\* text.
Finding(content, pattern, i, m, window) ==
    [pattern |-> pattern,
     match   |-> [j \in 1..(m.last - m.first + 1) |->
                     Lower(content[i][m.first + j - 1])],
     context |-> Strip(content,
                       Max(0, WordStart(content, i, m.first) - window),
                       Min(ContentLen(content),
                           WordEnd(content, i, m.last) + window))]

RECURSIVE PatternFindings(_, _, _, _)
PatternFindings(content, pattern, i, window) ==
    IF i > Len(content) THEN <<>>
    ELSE LET ms == LineMatches(pattern, content[i], 1)
         IN  [n \in 1..Len(ms) |-> Finding(content, pattern, i, ms[n], window)]
                 \o PatternFindings(content, pattern, i + 1, window)

\* found_clauses of one category: its rules in table order.
RECURSIVE FoundClauses(_, _, _, _)
FoundClauses(content, patterns, k, window) ==
    IF k > Len(patterns) THEN <<>>
    ELSE PatternFindings(content, patterns[k], 1, window)
             \o FoundClauses(content, patterns, k + 1, window)

\* A scan that keeps the first finding of every category only.
ScanTable_first_finding(content, table, window) ==
    LET found == [k \in 1..Len(table) |->
                     FoundClauses(content, table[k].patterns, 1, window)]
        hit == {k \in 1..Len(table) : found[k] # <<>>}
    IN  [t \in {table[k].type : k \in hit} |->
            <<found[CHOOSE k \in hit : table[k].type = t][1]>>]

\* A scan that keeps every category of the table as a key, findings or not.
ScanTable_keeping_empty(content, table, window) ==
    [t \in {table[k].type : k \in 1..Len(table)} |->
        FoundClauses(content,
                     table[CHOOSE k \in 1..Len(table) : table[k].type = t].patterns,
                     1, window)]

\* The scan shared by both detectors: a category is a key of the result
\* only if it has at least one finding.
ScanTable(content, table, window) ==
    LET found == [k \in 1..Len(table) |->
                     FoundClauses(content, table[k].patterns, 1, window)]
        hit == {k \in 1..Len(table) : found[k] # <<>>}
    IN  [t \in {table[k].type : k \in hit} |->
            found[CHOOSE k \in hit : table[k].type = t]]

RiskWindow == 100

ComplianceWindow == 50

\* The risk detector taking its contexts as the compliance detector does.
detect_risk_patterns_narrow(content) ==
    ScanTable(content, RISK_PATTERNS, ComplianceWindow)

detect_risk_patterns(content) == ScanTable(content, RISK_PATTERNS, RiskWindow)

check_compliance(content) == ScanTable(content, COMPLIANCE_PATTERNS, ComplianceWindow)

\* ---------------------------------------------------------- segmentation
\* Character classes of the words of the texts, as the header patterns
\* read them: digits and a dot, upper-case letters only, a capital followed
\* by lower-case letters and a colon, lower-case only.
WordClass(w) ==
    CASE w = "1." -> "enumerator"
      [] w = "TERMS" -> "upper"
      [] w = "Summary:" -> "capitalized_colon"
      [] OTHER -> "lower"

\* r"\d+\.\s*([^.\n]+)": an enumerator and at least one more character.
NumberedHeader(line) ==
    /\ Len(line) >= 2
    /\ WordClass(line[1]) = "enumerator"

\* r"[A-Z][A-Z\s]+\n": upper-case words and then a newline, inside the line.
AllCapsHeader(line) ==
    \E j \in 2..Len(line) :
        /\ \A i \in 1..(j - 1) : WordClass(line[i]) = "upper"
        /\ line[j] = "\n"

\* r"^[A-Z][a-z\s]+:$": a capital, lower-case letters or spaces, a colon.
TitleColonHeader(line) ==
    \/ Len(line) = 1 /\ WordClass(line[1]) = "capitalized_colon"
    \/ /\ Len(line) >= 2
       /\ WordClass(line[1]) = "capitalized"
       /\ \A i \in 2..(Len(line) - 1) : WordClass(line[i]) = "lower"
       /\ WordClass(line[Len(line)]) = "lower_colon"

section_patterns == <<"numbered", "all_caps", "title_colon">>

MatchesHeader(pattern, line) ==
    CASE pattern = "numbered" -> NumberedHeader(line)
      [] pattern = "all_caps" -> AllCapsHeader(line)
      [] pattern = "title_colon" -> TitleColonHeader(line)

is_header(line) ==
    \E k \in 1..Len(section_patterns) : MatchesHeader(section_patterns[k], line)

\* The loop appending the current section on every header line, with or
\* without content.
RECURSIVE SectionLoop_flushing_empty(_, _, _)
SectionLoop_flushing_empty(lines, i, acc) ==
    IF i > Len(lines) THEN acc
    ELSE IF lines[i] = <<>> THEN SectionLoop_flushing_empty(lines, i + 1, acc)
    ELSE IF is_header(lines[i])
    THEN SectionLoop_flushing_empty(lines, i + 1,
             <<Append(acc[1], acc[2]),
               [title |-> lines[i], content |-> <<>>]>>)
    ELSE SectionLoop_flushing_empty(lines, i + 1,
             <<acc[1], [acc[2] EXCEPT !.content = Append(@, lines[i])]>>)

\* The loop without its "if not line: continue": blank lines go into the
\* section's content.
RECURSIVE SectionLoop_keeping_blank(_, _, _)
SectionLoop_keeping_blank(lines, i, acc) ==
    IF i > Len(lines) THEN acc
    ELSE IF lines[i] # <<>> /\ is_header(lines[i])
    THEN SectionLoop_keeping_blank(lines, i + 1,
             <<IF acc[2].content # <<>> THEN Append(acc[1], acc[2])
                                        ELSE acc[1],
               [title |-> lines[i], content |-> <<>>]>>)
    ELSE SectionLoop_keeping_blank(lines, i + 1,
             <<acc[1], [acc[2] EXCEPT !.content = Append(@, lines[i])]>>)

\* The loop over the lines: acc is <<sections, current_section>>; a section's
\* content is the sequence of the lines appended to it.
RECURSIVE SectionLoop(_, _, _)
SectionLoop(lines, i, acc) ==
    IF i > Len(lines) THEN acc
    ELSE LET line == lines[i]
             sections == acc[1]
             current == acc[2]
         IN  IF line = <<>> THEN SectionLoop(lines, i + 1, acc)
             ELSE IF is_header(line)
             THEN SectionLoop(lines, i + 1,
                      <<IF current.content # <<>> THEN Append(sections, current)
                                                  ELSE sections,
                        [title |-> line, content |-> <<>>]>>)
             ELSE SectionLoop(lines, i + 1,
                      <<sections,
                        [current EXCEPT !.content = Append(@, line)]>>)

IntroductionTitle == <<"Introduction">>

\* The segmenter appending its last section whether it has content or not.
extract_sections_keeping_empty(content) ==
    LET acc == SectionLoop(content, 1,
                   <<<<>>, [title |-> IntroductionTitle, content |-> <<>>]>>)
    IN  Append(acc[1], acc[2])

extract_sections(content) ==
    LET acc == SectionLoop(content, 1,
                   <<<<>>, [title |-> IntroductionTitle, content |-> <<>>]>>)
    IN  IF acc[2].content # <<>> THEN Append(acc[1], acc[2]) ELSE acc[1]

\* ------------------------------------------------------- fairness scorer
base_score == 100

risk_deductions ==
    [t \in {RISK_PATTERNS[k].type : k \in 1..Len(RISK_PATTERNS)} |->
        CASE t = "mandatory_arbitration" -> 25
          [] t = "broad_liability_waivers" -> 30
          [] t = "broad_termination_rights" -> 20
          [] t = "automatic_renewal" -> 15
          [] t = "excessive_data_collection" -> 25
          [] t = "no_refunds" -> 10
          [] t = "data_selling" -> 30
          [] t = "unilateral_changes" -> 15
          [] t = "sole_discretion_clauses" -> 15
          [] t = "waiver_of_rights" -> 20
          [] t = "extensive_data_sharing" -> 25
          [] t = "indefinite_data_retention" -> 20
          [] t = "broad_data_use" -> 20
          [] t = "lack_of_user_control" -> 25]

compliance_bonuses ==
    [f \in {COMPLIANCE_PATTERNS[k].type : k \in 1..Len(COMPLIANCE_PATTERNS)} |->
        CASE f = "gdpr" -> 10
          [] f = "coppa" -> 10
          [] f = "ccpa" -> 10
          [] f = "fair_terms" -> 15
          [] f = "privacy_best_practices" -> 15]

\* The sum of a table's entries over the keys of a findings map that the
\* table knows: one entry per key, whatever the number of findings.
RECURSIVE TableSum(_, _)
TableSum(table, keys) ==
    IF keys = {} THEN 0
    ELSE LET k == CHOOSE x \in keys : TRUE
         IN  (IF k \in DOMAIN table THEN table[k] ELSE 0)
                 + TableSum(table, keys \ {k})

\* The sum of a table's entries over the findings of a map, one entry per
\* finding.
RECURSIVE FindingSum(_, _, _)
FindingSum(table, map, keys) ==
    IF keys = {} THEN 0
    ELSE LET k == CHOOSE x \in keys : TRUE
         IN  (IF k \in DOMAIN table THEN table[k] * Len(map[k]) ELSE 0)
                 + FindingSum(table, map, keys \ {k})

\* The scorer deducting 10 for a risk key its table does not hold.
calculate_fairness_score_default_deduction(risks, compliance) ==
    LET unlisted == DOMAIN risks \ DOMAIN risk_deductions
        score == base_score - TableSum(risk_deductions, DOMAIN risks)
                            - 10 * Cardinality(unlisted)
                            + TableSum(compliance_bonuses, DOMAIN compliance)
    IN  Max(0, Min(100, score))

\* The scorer deducting and adding once per finding.
calculate_fairness_score_per_finding(risks, compliance) ==
    LET score == base_score - FindingSum(risk_deductions, risks, DOMAIN risks)
                     + FindingSum(compliance_bonuses, compliance,
                                  DOMAIN compliance)
    IN  Max(0, Min(100, score))

\* The scorer clamping after the deductions and again after the bonuses.
calculate_fairness_score_clamped_early(risks, compliance) ==
    LET deducted == Max(0, Min(100, base_score
                                   - TableSum(risk_deductions, DOMAIN risks)))
    IN  Max(0, Min(100, deducted
                        + TableSum(compliance_bonuses, DOMAIN compliance)))

\* The scorer without its final clamp.
calculate_fairness_score_unclamped(risks, compliance) ==
    base_score - TableSum(risk_deductions, DOMAIN risks)
               + TableSum(compliance_bonuses, DOMAIN compliance)

calculate_fairness_score(risks, compliance) ==
    LET score == base_score - TableSum(risk_deductions, DOMAIN risks)
                            + TableSum(compliance_bonuses, DOMAIN compliance)
    IN  Max(0, Min(100, score))

\* ------------------------------------------------ recommendation generator
FairTermsRecommendation == "[ok] Document appears to have fair terms"

When(cond, text) == IF cond THEN <<text>> ELSE <<>>

RiskRecommendations(risks) ==
    When("mandatory_arbitration" \in DOMAIN risks,
         "[warn] Remove mandatory arbitration clause - users should have right to sue in court")
    \o When("broad_liability_waivers" \in DOMAIN risks,
         "[warn] Limit liability waivers - complete immunity is unfair to users")
    \o When("broad_termination_rights" \in DOMAIN risks,
         "[warn] Add due process for account termination - vague standards are unfair")
    \o When("automatic_renewal" \in DOMAIN risks,
         "[warn] Make subscription cancellation easier - automatic renewal can be deceptive")
    \o When("excessive_data_collection" \in DOMAIN risks,
         "[alert] Limit data collection to what's necessary - excessive collection violates privacy")
    \o When("no_refunds" \in DOMAIN risks,
         "[warn] Provide clear refund policies - no-refund policies can be unfair")
    \o When("data_selling" \in DOMAIN risks,
         "[alert] Prohibit selling user data - this violates user trust and privacy")
    \o When("unilateral_changes" \in DOMAIN risks,
         "[warn] Require notice for material changes - unilateral changes are unfair")
    \o When("sole_discretion_clauses" \in DOMAIN risks,
         "[warn] Add objective standards - 'sole discretion' is too vague")
    \o When("waiver_of_rights" \in DOMAIN risks,
         "[alert] Remove broad rights waivers - users should retain basic legal rights")
    \o When("extensive_data_sharing" \in DOMAIN risks,
         "[alert] Limit data sharing - extensive sharing with third parties violates privacy")
    \o When("indefinite_data_retention" \in DOMAIN risks,
         "[warn] Set clear data retention limits - indefinite retention is unfair")
    \o When("broad_data_use" \in DOMAIN risks,
         "[warn] Limit data use to stated purposes - broad use violates user expectations")
    \o When("lack_of_user_control" \in DOMAIN risks,
         "[alert] Give users control over their data - lack of control is unfair")

ComplianceRecommendations(compliance) ==
    When("gdpr" \notin DOMAIN compliance,
         "[add] Add GDPR compliance clauses for EU users")
    \o When("ccpa" \notin DOMAIN compliance,
         "[add] Add CCPA compliance for California users")
    \o When("fair_terms" \notin DOMAIN compliance,
         "[add] Add fair dispute resolution process")
    \o When("privacy_best_practices" \notin DOMAIN compliance,
         "[add] Implement privacy by design principles")

\* The recommender listing the missing-framework advisories first.
generate_recommendations_compliance_first(risks, compliance) ==
    LET recommendations == ComplianceRecommendations(compliance)
                               \o RiskRecommendations(risks)
    IN  IF recommendations = <<>> THEN <<FairTermsRecommendation>>
        ELSE recommendations

\* The recommender without its closing "if not recommendations" entry.
generate_recommendations_no_fallback(risks, compliance) ==
    RiskRecommendations(risks) \o ComplianceRecommendations(compliance)

\* The recommender emitting the affirmative entry whenever no risk was found.
generate_recommendations_fair_without_risks(risks, compliance) ==
    IF RiskRecommendations(risks) = <<>> THEN <<FairTermsRecommendation>>
    ELSE RiskRecommendations(risks) \o ComplianceRecommendations(compliance)

generate_recommendations(risks, compliance) ==
    LET recommendations == RiskRecommendations(risks)
                               \o ComplianceRecommendations(compliance)
    IN  IF recommendations = <<>> THEN <<FairTermsRecommendation>>
        ELSE recommendations

\* ------------------------------------------------------------ the pipeline
VARIABLES
    llm,        \* the module-level collaborator handle: TRUE when configured
    pc,         \* the node the graph runs next
    state,      \* the LegalAgentState threaded through the nodes
    count,      \* generate_summary's loop counter
    enhanced_recommendations, \* the update returned by enhance_recommendations
    llm_calls,  \* llm.invoke calls made so far
    last_outcome, \* what the latest llm.invoke call did
    executed,   \* the nodes entered so far, in order
    result,     \* what analyze_legal_document returned
    error,      \* the exception that left the run, if any
    peer        \* a second analysis in progress, while this one runs

vars == <<llm, pc, state, count, enhanced_recommendations, llm_calls,
          last_outcome, executed, result, error, peer>>

\* An optional value: absent, or one value.
Absent == <<>>

Some(x) == <<x>>

NoError == ""

_MAX_LLM_RETRIES == 3

EmptyMap == <<>>

DocumentTypes == {"Terms of Service"}

\* LegalAgentState(document_content=..., messages=[]) with the declared defaults.
LegalAgentState(content, document_type) ==
    [document_content |-> content,
     document_title   |-> "Unknown Document",
     document_type    |-> document_type,
     parsed_document  |-> Absent,
     risk_analysis    |-> EmptyMap,
     compliance_check |-> EmptyMap,
     summary          |-> "",
     fairness_score   |-> 0,
     recommendations  |-> <<>>,
     messages         |-> <<>>]

\* A merge that resets the analysis fields a node's update does not carry.
ApplyUpdate_discarding(st, update) ==
    [f \in DOMAIN st |->
        IF f \in DOMAIN update THEN update[f]
        ELSE IF f \in {"risk_analysis", "compliance_check"} THEN EmptyMap
        ELSE IF f = "fairness_score" THEN 0
        ELSE IF f = "recommendations" THEN <<>>
        ELSE st[f]]

\* The graph merges a node's update into the state: a declared key is
\* replaced, messages are appended (add_messages).
ApplyUpdate(st, update) ==
    [f \in DOMAIN st |->
        IF f \notin DOMAIN update THEN st[f]
        ELSE IF f = "messages" THEN st[f] \o update[f]
        ELSE update[f]]

\* extract_sections on each document, computed once.
SectionsOf == [content \in Documents |-> extract_sections(content)]

\* document_parser.parse_legal_document
parse_legal_document(st) ==
    [parsed_document |-> [title         |-> st.title,
                          content       |-> st.content,
                          document_type |-> st.document_type,
                          sections      |-> SectionsOf[st.content]],
     messages |-> st.messages]

\* The node parse_document: its update.
parse_document(st) ==
    LET parser_result == parse_legal_document(
                             [content       |-> st.document_content,
                              title         |-> st.document_title,
                              document_type |-> st.document_type,
                              messages      |-> st.messages])
    IN  [parsed_document |-> Some(parser_result.parsed_document),
         messages        |-> parser_result.messages]

\* The four steps of analyze_legal_risks on a text: detection, compliance
\* check, score, recommendations.
AnalyzeContent(content) ==
    LET risks == detect_risk_patterns(content)
        compliance == check_compliance(content)
    IN  [risk_analysis    |-> risks,
         compliance_check |-> compliance,
         fairness_score   |-> calculate_fairness_score(risks, compliance),
         recommendations  |-> generate_recommendations(risks, compliance)]

\* AnalyzeContent on each document, computed once.
AnalysisOf == [content \in Documents |-> AnalyzeContent(content)]

\* risk_analyzer.analyze_legal_risks
analyze_legal_risks(document, messages) ==
    [risk_analysis    |-> AnalysisOf[document.content].risk_analysis,
     compliance_check |-> AnalysisOf[document.content].compliance_check,
     fairness_score   |-> AnalysisOf[document.content].fairness_score,
     recommendations  |-> AnalysisOf[document.content].recommendations,
     messages         |-> messages]

NotParsed == "ValueError: Document not parsed."

\* analyze_risks repairing a missing parsed_document instead of raising.
analyze_risks_repairing(st) ==
    [raised |-> NoError,
     update |-> analyze_legal_risks(
                    IF st.parsed_document = Absent
                    THEN parse_document(st).parsed_document[1]
                    ELSE st.parsed_document[1],
                    st.messages)]

\* analyze_risks keeping its findings between calls: a call adds the
\* findings of the text to those the state already holds.
analyze_risks_accumulating(st) ==
    IF st.parsed_document = Absent
    THEN [raised |-> NotParsed, update |-> <<>>]
    ELSE LET fresh == analyze_legal_risks(st.parsed_document[1], st.messages)
         IN  [raised |-> NoError,
              update |-> [fresh EXCEPT
                  !.risk_analysis =
                      [k \in DOMAIN fresh.risk_analysis |->
                          (IF k \in DOMAIN st.risk_analysis
                           THEN st.risk_analysis[k] ELSE <<>>)
                              \o fresh.risk_analysis[k]]]]

\* The node analyze_risks: the exception it raises, or its update.
analyze_risks(st) ==
    IF st.parsed_document = Absent
    THEN [raised |-> NotParsed, update |-> <<>>]
    ELSE [raised |-> NoError,
          update |-> analyze_legal_risks(st.parsed_document[1], st.messages)]

SummaryUnavailable == "LLM analysis not available. Please check NVIDIA_API_KEY."

SummaryFailed == "Unable to generate summary due to API issues."

\* What one llm.invoke call can do: raise an exception, return no response,
\* or return a response whose content is empty or a text.
Responses == {"narrative A", "narrative B"}

LlmOutcomes ==
    {[kind |-> "raise", content |-> ""], [kind |-> "none", content |-> ""]}
    \cup {[kind |-> "response", content |-> c] : c \in {""} \cup Responses}

NoCall == [kind |-> "no_call", content |-> ""]

\* The handle check left out.
Configured_unchecked(handle) == TRUE

\* "if not llm": whether the handle is there.
Configured(handle) == handle

\* "except Exception": whether the handler takes what the call raised.
Caught(outcome) == TRUE

\* No response is taken: every call counts as failed.
Usable_never(outcome) == FALSE

\* "if response" alone: the content is not looked at.
Usable_any_response(outcome) == outcome.kind = "response"

\* "if response and response.content" after a call that did not raise.
Usable(outcome) == outcome.kind = "response" /\ outcome.content # ""

\* create_graph with the enhancement node run again after itself.
NextNode_repeating_enhancement(node) ==
    CASE node = "START" -> "parse_document"
      [] node = "parse_document" -> "analyze_risks"
      [] node = "analyze_risks" -> "generate_summary"
      [] node = "generate_summary" -> "enhance_recommendations"
      [] node = "enhance_recommendations" -> "enhance_recommendations"

\* create_graph with the edge out of analyze_risks drawn to the wrong node.
NextNode_skipping(node) ==
    CASE node = "START" -> "parse_document"
      [] node = "parse_document" -> "analyze_risks"
      [] node = "analyze_risks" -> "enhance_recommendations"
      [] node = "generate_summary" -> "enhance_recommendations"
      [] node = "enhance_recommendations" -> "END"

\* The edges of create_graph.
NextNode(node) ==
    CASE node = "START" -> "parse_document"
      [] node = "parse_document" -> "analyze_risks"
      [] node = "analyze_risks" -> "generate_summary"
      [] node = "generate_summary" -> "enhance_recommendations"
      [] node = "enhance_recommendations" -> "END"

\* analyze_legal_document: the initial state handed to graph.invoke.
Init ==
    /\ llm \in BOOLEAN
    /\ pc = NextNode("START")
    /\ \E content \in Documents, document_type \in DocumentTypes :
           state = LegalAgentState(content, document_type)
    /\ count = 0
    /\ enhanced_recommendations = Absent
    /\ llm_calls = 0
    /\ last_outcome = NoCall
    /\ executed = <<>>
    /\ result = Absent
    /\ error = NoError
    /\ peer = Absent

ParseDocument ==
    /\ pc = "parse_document"
    /\ executed' = Append(executed, "parse_document")
    /\ state' = ApplyUpdate(state, parse_document(state))
    /\ pc' = NextNode("parse_document")
    /\ UNCHANGED <<llm, count, enhanced_recommendations, llm_calls,
                   last_outcome, result, error>>
    /\ UNCHANGED peer

AnalyzeRisks ==
    /\ pc = "analyze_risks"
    /\ executed' = Append(executed, "analyze_risks")
    /\ LET returned == analyze_risks(state)
       IN  IF returned.raised # NoError
           THEN /\ error' = returned.raised
                /\ pc' = "raised"
                /\ UNCHANGED state
           ELSE /\ state' = ApplyUpdate(state, returned.update)
                /\ pc' = NextNode("analyze_risks")
                /\ UNCHANGED error
    /\ UNCHANGED <<llm, count, enhanced_recommendations, llm_calls,
                   last_outcome, result>>
    /\ UNCHANGED peer

\* generate_summary up to its loop: the precondition and the collaborator check.
GenerateSummaryEnter ==
    /\ pc = "generate_summary"
    /\ executed' = Append(executed, "generate_summary")
    /\ IF state.parsed_document = Absent
       THEN /\ error' = NotParsed
            /\ pc' = "raised"
            /\ UNCHANGED <<state, count>>
       ELSE IF ~Configured(llm)
       THEN /\ state' = ApplyUpdate(state, [summary |-> SummaryUnavailable])
            /\ pc' = NextNode("generate_summary")
            /\ UNCHANGED <<error, count>>
       ELSE /\ count' = 0
            /\ pc' = "generate_summary_loop"
            /\ UNCHANGED <<state, error>>
    /\ UNCHANGED <<llm, enhanced_recommendations, llm_calls, last_outcome,
                   result>>
    /\ UNCHANGED peer

\* The loop bound off by one.
InRange_inclusive(c) == c <= _MAX_LLM_RETRIES

\* "for count in range(_MAX_LLM_RETRIES)": whether another pass runs.
InRange(c) == c < _MAX_LLM_RETRIES

\* One pass of the loop: one llm.invoke call.
GenerateSummaryAttempt ==
    /\ pc = "generate_summary_loop"
    /\ InRange(count)
    /\ \E outcome \in LlmOutcomes :
           /\ llm_calls' = llm_calls + 1
           /\ last_outcome' = outcome
           /\ IF outcome.kind = "raise" /\ ~Caught(outcome)
              THEN /\ error' = "collaborator error"
                   /\ pc' = "raised"
                   /\ UNCHANGED <<state, count>>
              ELSE IF Usable(outcome)
              THEN /\ state' = ApplyUpdate(state, [summary |-> outcome.content])
                   /\ pc' = NextNode("generate_summary")
                   /\ UNCHANGED <<count, error>>
              ELSE /\ count' = count + 1
                   /\ UNCHANGED <<state, pc, error>>
    /\ UNCHANGED <<llm, enhanced_recommendations, executed, result>>
    /\ UNCHANGED peer

\* The loop ran out: the fixed text.
GenerateSummaryExhausted ==
    /\ pc = "generate_summary_loop"
    /\ ~InRange(count)
    /\ state' = ApplyUpdate(state, [summary |-> SummaryFailed])
    /\ pc' = NextNode("generate_summary")
    /\ UNCHANGED <<llm, count, enhanced_recommendations, llm_calls,
                   last_outcome, executed, result, error>>
    /\ UNCHANGED peer

\* enhance_recommendations putting the response in front.
enhance_recommendations_in_front(st, outcome) ==
    IF Usable(outcome) THEN <<outcome.content>> \o st.recommendations
    ELSE st.recommendations

\* enhance_recommendations appending whatever the call returned.
enhance_recommendations_unchecked(st, outcome) ==
    st.recommendations \o <<outcome.content>>

\* What enhance_recommendations returns after a call with this outcome.
enhance_recommendations(st, outcome) ==
    IF Usable(outcome) THEN st.recommendations \o <<outcome.content>>
    ELSE st.recommendations

EnhanceRecommendations ==
    /\ pc = "enhance_recommendations"
    /\ executed' = Append(executed, "enhance_recommendations")
    /\ IF ~Configured(llm)
       THEN /\ enhanced_recommendations' = Some(state.recommendations)
            /\ pc' = NextNode("enhance_recommendations")
            /\ UNCHANGED <<llm_calls, last_outcome, error>>
       ELSE \E outcome \in LlmOutcomes :
                /\ llm_calls' = llm_calls + 1
                /\ last_outcome' = outcome
                /\ IF outcome.kind = "raise" /\ ~Caught(outcome)
                   THEN /\ error' = "collaborator error"
                        /\ pc' = "raised"
                        /\ UNCHANGED enhanced_recommendations
                   ELSE /\ enhanced_recommendations' =
                               Some(enhance_recommendations(state, outcome))
                        /\ pc' = NextNode("enhance_recommendations")
                        /\ UNCHANGED error
    /\ UNCHANGED <<llm, state, count, result>>
    /\ UNCHANGED peer

\* getattr(result, 'enhanced_recommendations', result.recommendations):
\* LegalAgentState declares no such field, so the final state may lack it.
ResultEnhanced(st, extra, kept) ==
    IF kept /\ extra # Absent THEN extra[1] ELSE st.recommendations

\* analyze_legal_document's return value.
AnalysisResult(st, extra, kept) ==
    [document_title   |-> st.document_title,
     document_type    |-> st.document_type,
     risk_analysis    |-> st.risk_analysis,
     compliance_check |-> st.compliance_check,
     summary          |-> st.summary,
     fairness_score   |-> st.fairness_score,
     recommendations  |-> st.recommendations,
     enhanced_recommendations |-> ResultEnhanced(st, extra, kept)]

ResultNotReadable ==
    "AttributeError: graph.invoke's result has no attribute 'document_title'"

\* analyze_legal_document after graph.invoke: the returned value is read by
\* attribute (result.document_title, ...). The nodes read what graph.invoke
\* returns as a mapping (result.get, legal_agent.py lines 47 and 67), and a
\* mapping has no such attributes: whether the reads succeed is up to the
\* graph library, so both outcomes are taken.
Return ==
    /\ pc = "END"
    /\ \E readable \in BOOLEAN, kept \in BOOLEAN :
           IF readable
           THEN /\ result' = Some(AnalysisResult(state,
                                                 enhanced_recommendations, kept))
                /\ pc' = "returned"
                /\ UNCHANGED error
           ELSE /\ error' = ResultNotReadable
                /\ pc' = "raised"
                /\ UNCHANGED result
    /\ UNCHANGED <<llm, state, count, enhanced_recommendations, llm_calls,
                   last_outcome, executed>>
    /\ UNCHANGED peer

Next ==
    \/ ParseDocument
    \/ AnalyzeRisks
    \/ GenerateSummaryEnter
    \/ GenerateSummaryAttempt
    \/ GenerateSummaryExhausted
    \/ EnhanceRecommendations
    \/ Return

Spec == Init /\ [][Next]_vars

\* The graph runs the node that is due, and every collaborator call returns
\* or raises.
FairSpec == Spec /\ WF_vars(Next)

\* ------------------------------------------- a stage invoked on its own
\* The node functions are module-level functions: a caller may invoke one
\* directly on a state, without the graph. At most MaxDirectCalls calls.
MaxDirectCalls == 3

StageInit ==
    /\ llm \in BOOLEAN
    /\ pc = "direct"
    /\ \E content \in Documents, document_type \in DocumentTypes :
           state = LegalAgentState(content, document_type)
    /\ count = 0
    /\ enhanced_recommendations = Absent
    /\ llm_calls = 0
    /\ last_outcome = NoCall
    /\ executed = <<>>
    /\ result = Absent
    /\ error = NoError
    /\ peer = Absent

DirectParseDocument ==
    /\ pc = "direct"
    /\ Len(executed) < MaxDirectCalls
    /\ executed' = Append(executed, "parse_document")
    /\ state' = ApplyUpdate(state, parse_document(state))
    /\ UNCHANGED <<llm, pc, count, enhanced_recommendations, llm_calls,
                   last_outcome, result, error>>
    /\ UNCHANGED peer

DirectAnalyzeRisks ==
    /\ pc = "direct"
    /\ Len(executed) < MaxDirectCalls
    /\ executed' = Append(executed, "analyze_risks")
    /\ LET returned == analyze_risks(state)
       IN  IF returned.raised # NoError
           THEN /\ error' = returned.raised
                /\ pc' = "raised"
                /\ UNCHANGED state
           ELSE /\ state' = ApplyUpdate(state, returned.update)
                /\ UNCHANGED <<pc, error>>
    /\ UNCHANGED <<llm, count, enhanced_recommendations, llm_calls,
                   last_outcome, result>>
    /\ UNCHANGED peer

StageNext == DirectParseDocument \/ DirectAnalyzeRisks

SpecStage == StageInit /\ [][StageNext]_vars

\* ------------------------------- the scorer and the recommender on their own
\* calculate_fairness_score and generate_recommendations applied to findings
\* maps over any categories and frameworks (as test_legal_agent_simple.py
\* calls them), each key holding between 1 and MaxFindings findings.
RiskTypes == {RISK_PATTERNS[k].type : k \in 1..Len(RISK_PATTERNS)}

Frameworks == {COMPLIANCE_PATTERNS[k].type : k \in 1..Len(COMPLIANCE_PATTERNS)}

SampleFinding == [pattern |-> <<"mediation">>, match |-> <<"mediation">>,
                  context |-> <<0, 9>>]

FindingsMap(keys, n) == [k \in keys |-> [i \in 1..n |-> SampleFinding]]

FnInit ==
    /\ llm = FALSE
    /\ pc = "fn_input"
    /\ \E rk \in SUBSET RiskTypes, ck \in SUBSET Frameworks, n \in 1..MaxFindings :
           state = [LegalAgentState(EmptyDocument, "Terms of Service") EXCEPT
                       !.risk_analysis = FindingsMap(rk, n),
                       !.compliance_check = FindingsMap(ck, n)]
    /\ count = 0
    /\ enhanced_recommendations = Absent
    /\ llm_calls = 0
    /\ last_outcome = NoCall
    /\ executed = <<>>
    /\ result = Absent
    /\ error = NoError
    /\ peer = Absent

\* The scoring and recommendation steps of analyze_legal_risks.
FnAnalyze ==
    /\ pc = "fn_input"
    /\ state' = [state EXCEPT
                     !.fairness_score =
                         calculate_fairness_score(state.risk_analysis,
                                                  state.compliance_check),
                     !.recommendations =
                         generate_recommendations(state.risk_analysis,
                                                  state.compliance_check)]
    /\ pc' = "fn_done"
    /\ UNCHANGED <<llm, count, enhanced_recommendations, llm_calls,
                   last_outcome, executed, result, error>>
    /\ UNCHANGED peer

FnNext == FnAnalyze

SpecFn == FnInit /\ [][FnNext]_vars

\* The analysis pipeline and the direct calls of its scorer and recommender.
AnalysisInit == Init \/ FnInit

AnalysisNext == Next \/ FnNext

SpecAnalysis == AnalysisInit /\ [][AnalysisNext]_vars

\* ------------------------------------------------------ researcher graph
\* researcher.py: the graph START -> agent -> (tools -> agent)* -> END. The
\* run's ResearcherState is held in `state`, the node that is due in `pc`,
\* the attempt of call_model's loop in `count`, the nodes that returned in
\* `executed`.
MaxToolCalls == 2

MaxAgentSteps == 2

researcher_MAX_LLM_RETRIES == 3

\* The names a tool call can carry: two tools of the tools module and a
\* name the module does not define.
ToolNames == {"search_tavily", "search_legal_precedents", "no_such_tool"}

DefinedTools == {"search_tavily", "search_legal_precedents"}

\* The tool_calls lists a response can carry: the k-th call has id k.
ToolCallLists ==
    {[k \in 1..Len(names) |-> [name |-> names[k], id |-> k]] :
        names \in SeqsUpTo(ToolNames, MaxToolCalls)}

UserMessage ==
    [role |-> "user", content |-> "question", tool_calls |-> <<>>,
     name |-> "", tool_call_id |-> 0]

\* A response of the model: an assistant message with its tool calls.
AIMessage(tool_calls) ==
    [role |-> "assistant", content |-> "answer", tool_calls |-> tool_calls,
     name |-> "", tool_call_id |-> 0]

ResearcherState(topic, messages) ==
    [topic |-> topic, number_of_queries |-> 5, messages |-> messages]

\* add_messages: the node's messages are appended to the state's.
add_messages(left, right) == left \o right

\* has_tool_calls looking at every message instead of the latest.
has_tool_calls_any_message(st) ==
    \E i \in 1..Len(st.messages) : st.messages[i].tool_calls # <<>>

has_tool_calls(st) ==
    IF st.messages = <<>> THEN FALSE
    ELSE st.messages[Len(st.messages)].tool_calls # <<>>

\* add_conditional_edges("agent", has_tool_calls, {True: "tools", False: END})
AfterAgent(st) == IF has_tool_calls(st) THEN "tools" ELSE "END"

\* json.dumps(result): the text of a tool's result.
ToolResult(call) == <<"json", call.name, "result">>

\* tool_node when no tool raises: one tool message per call, in call order.
tool_node(st) ==
    IF st.messages = <<>> THEN <<>>
    ELSE LET tool_calls == st.messages[Len(st.messages)].tool_calls
         IN  [k \in 1..Len(tool_calls) |->
                 [role         |-> "tool",
                  content      |-> ToolResult(tool_calls[k]),
                  tool_calls   |-> <<>>,
                  name         |-> tool_calls[k].name,
                  tool_call_id |-> tool_calls[k].id]]

\* Whether a call of tool_node's loop can raise: getattr(tools, name) on a
\* name the module lacks always does, tool.ainvoke may.
MustRaise(st) ==
    /\ st.messages # <<>>
    /\ \E k \in 1..Len(st.messages[Len(st.messages)].tool_calls) :
           st.messages[Len(st.messages)].tool_calls[k].name \notin DefinedTools

MayRaise(st) ==
    /\ st.messages # <<>>
    /\ st.messages[Len(st.messages)].tool_calls # <<>>

\* graph.ainvoke(state): START -> agent.
ResearcherInit ==
    /\ llm = TRUE
    /\ pc = "agent"
    /\ \E messages \in {<<>>, <<UserMessage>>} :
           state = ResearcherState("topic", messages)
    /\ count = 0
    /\ enhanced_recommendations = Absent
    /\ llm_calls = 0
    /\ last_outcome = NoCall
    /\ executed = <<>>
    /\ result = Absent
    /\ error = NoError
    /\ peer = Absent

AgentSteps == Cardinality({i \in 1..Len(executed) : executed[i] = "agent"})

\* One pass of call_model's loop: one llm_with_tools.ainvoke call. An error
\* it raises is not caught; a falsy response leads to the next pass; a
\* response is returned, appended to the messages, and the conditional
\* edge chooses the next node.
CallModelAttempt ==
    /\ pc = "agent"
    /\ AgentSteps < MaxAgentSteps
    /\ count < researcher_MAX_LLM_RETRIES
    /\ llm_calls' = llm_calls + 1
    /\ \/ /\ last_outcome' = [kind |-> "raise", content |-> ""]
          /\ error' = "collaborator error"
          /\ pc' = "raised"
          /\ UNCHANGED <<state, count, executed>>
       \/ /\ last_outcome' = [kind |-> "none", content |-> ""]
          /\ count' = count + 1
          /\ UNCHANGED <<state, pc, executed, error>>
       \/ \E tool_calls \in ToolCallLists :
              /\ last_outcome' = [kind |-> "response", content |-> "answer"]
              /\ state' = [state EXCEPT !.messages =
                               add_messages(@, <<AIMessage(tool_calls)>>)]
              /\ executed' = Append(executed, "agent")
              /\ pc' = AfterAgent(state')
              /\ count' = 0
              /\ UNCHANGED error
    /\ UNCHANGED <<llm, enhanced_recommendations, result>>
    /\ UNCHANGED peer

\* The loop ran out: raise RuntimeError.
CallModelExhausted ==
    /\ pc = "agent"
    /\ count >= researcher_MAX_LLM_RETRIES
    /\ error' = "RuntimeError: LLM failed after 3 tries."
    /\ pc' = "raised"
    /\ UNCHANGED <<llm, state, count, enhanced_recommendations, llm_calls,
                   last_outcome, executed, result>>
    /\ UNCHANGED peer

\* tool_node and the edge tools -> agent: either every call of the loop
\* returns and the tool messages are appended, or a call raises and the run
\* is aborted.
ToolNode ==
    /\ pc = "tools"
    /\ \E raises \in BOOLEAN :
           /\ raises => MayRaise(state)
           /\ MustRaise(state) => raises
           /\ IF raises
              THEN /\ error' = "tool error"
                   /\ pc' = "raised"
                   /\ UNCHANGED <<state, executed>>
              ELSE /\ state' = [state EXCEPT !.messages =
                                    add_messages(@, tool_node(state))]
                   /\ executed' = Append(executed, "tools")
                   /\ pc' = "agent"
                   /\ UNCHANGED error
    /\ UNCHANGED <<llm, count, enhanced_recommendations, llm_calls,
                   last_outcome, result>>
    /\ UNCHANGED peer

ResearcherNext == CallModelAttempt \/ CallModelExhausted \/ ToolNode

SpecResearcher == ResearcherInit /\ [][ResearcherNext]_vars

\* ------------------------------------------------ direct calls of the scorer
\* The scorer called on findings maps whose keys are categories of the
\* tables and keys the tables do not hold.
ScoreRiskKeys ==
    {"mandatory_arbitration", "broad_liability_waivers",
     "broad_termination_rights", "automatic_renewal",
     "excessive_data_collection", "no_refunds", "unlisted_risk"}

ScoreFrameworkKeys == Frameworks \cup {"unlisted_framework"}

ScoreInit ==
    /\ llm = FALSE
    /\ pc = "score_input"
    /\ \E rk \in SUBSET ScoreRiskKeys, ck \in SUBSET ScoreFrameworkKeys,
          n \in 1..MaxFindings :
           state = [LegalAgentState(EmptyDocument, "Terms of Service") EXCEPT
                       !.risk_analysis = FindingsMap(rk, n),
                       !.compliance_check = FindingsMap(ck, n)]
    /\ count = 0
    /\ enhanced_recommendations = Absent
    /\ llm_calls = 0
    /\ last_outcome = NoCall
    /\ executed = <<>>
    /\ result = Absent
    /\ error = NoError
    /\ peer = Absent

DirectScore ==
    /\ pc = "score_input"
    /\ state' = [state EXCEPT
                     !.fairness_score =
                         calculate_fairness_score(state.risk_analysis,
                                                  state.compliance_check)]
    /\ pc' = "score_done"
    /\ UNCHANGED <<llm, count, enhanced_recommendations, llm_calls,
                   last_outcome, executed, result, error>>
    /\ UNCHANGED peer

ScoreNext == DirectScore

SpecScore == ScoreInit /\ [][ScoreNext]_vars

\* ------------------------------------------- direct calls of the detectors
\* The two detectors called on a text one after the other, on texts long
\* enough for a context window to end inside the text.
MaxScanLines == 3

ScanLines ==
    { <<>>,
      <<"targeted", "advertising", "consequential", "damages", "no", "refunds">>,
      <<"privacy", "policy", "data", "disclosure", "mediation", "transparency">> }

ScanDocuments == SeqsUpTo(ScanLines, MaxScanLines) \ {<<>>}

ScanInit ==
    /\ llm = FALSE
    /\ pc = "scan_input"
    /\ \E content \in ScanDocuments :
           state = LegalAgentState(content, "Terms of Service")
    /\ count = 0
    /\ enhanced_recommendations = Absent
    /\ llm_calls = 0
    /\ last_outcome = NoCall
    /\ executed = <<>>
    /\ result = Absent
    /\ error = NoError
    /\ peer = Absent

DirectDetectRiskPatterns ==
    /\ pc = "scan_input"
    /\ state' = [state EXCEPT
                     !.risk_analysis =
                         detect_risk_patterns(state.document_content)]
    /\ pc' = "scan_risks"
    /\ UNCHANGED <<llm, count, enhanced_recommendations, llm_calls,
                   last_outcome, executed, result, error>>
    /\ UNCHANGED peer

DirectCheckCompliance ==
    /\ pc = "scan_risks"
    /\ state' = [state EXCEPT
                     !.compliance_check =
                         check_compliance(state.document_content)]
    /\ pc' = "scan_done"
    /\ UNCHANGED <<llm, count, enhanced_recommendations, llm_calls,
                   last_outcome, executed, result, error>>
    /\ UNCHANGED peer

ScanNext == DirectDetectRiskPatterns \/ DirectCheckCompliance

SpecScan == ScanInit /\ [][ScanNext]_vars

\* ------------------------------------------------- two analyses at once
\* Two calls of analyze_legal_document in progress in one process, their
\* steps interleaved in any order. One runs on the variables above; the
\* other waits in peer with its own locals: its content argument, its
\* state object, its position. Both read the module-level llm.
ConcurrentDocuments ==
    { EmptyDocument,
      << <<"1.", "binding", "arbitration">>,
         <<"location", "data", "sole", "discretion">> >>,
      << <<"privacy", "policy", "data", "disclosure", "mediation",
           "transparency">> >> }

\* The locals of a call that has not started its graph yet.
FreshCall(content, document_type) ==
    [content |-> content,
     pc |-> NextNode("START"),
     state |-> LegalAgentState(content, document_type),
     count |-> 0,
     enhanced_recommendations |-> Absent,
     llm_calls |-> 0,
     last_outcome |-> NoCall,
     executed |-> <<>>,
     result |-> Absent,
     error |-> NoError]

\* The locals of the call on the variables.
RunningCall ==
    [content |-> peer[1].running_content,
     pc |-> pc,
     state |-> state,
     count |-> count,
     enhanced_recommendations |-> enhanced_recommendations,
     llm_calls |-> llm_calls,
     last_outcome |-> last_outcome,
     executed |-> executed,
     result |-> result,
     error |-> error]

ConcurrentInit ==
    /\ llm \in BOOLEAN
    /\ \E first \in ConcurrentDocuments, second \in ConcurrentDocuments,
          document_type \in DocumentTypes :
           /\ state = LegalAgentState(first, document_type)
           /\ peer = Some([suspended |-> FreshCall(second, document_type),
                           running_content |-> first])
    /\ pc = NextNode("START")
    /\ count = 0
    /\ enhanced_recommendations = Absent
    /\ llm_calls = 0
    /\ last_outcome = NoCall
    /\ executed = <<>>
    /\ result = Absent
    /\ error = NoError

\* One state object shared by every call.
OwnState_shared(own, current) == current

\* initial_state = LegalAgentState(...) is built by each call: the state a
\* call works on is its own, not the one the other call left.
OwnState(own, current) == own

\* The interpreter leaves the running call and resumes the other.
Switch ==
    /\ peer # Absent
    /\ LET resumed == peer[1].suspended
       IN  /\ pc' = resumed.pc
           /\ state' = OwnState(resumed.state, state)
           /\ count' = resumed.count
           /\ enhanced_recommendations' = resumed.enhanced_recommendations
           /\ llm_calls' = resumed.llm_calls
           /\ last_outcome' = resumed.last_outcome
           /\ executed' = resumed.executed
           /\ result' = resumed.result
           /\ error' = resumed.error
           /\ peer' = Some([suspended |-> RunningCall,
                            running_content |-> resumed.content])
    /\ UNCHANGED llm

ConcurrentNext == Next \/ Switch

SpecConcurrent == ConcurrentInit /\ [][ConcurrentNext]_vars

\* ================================================================ claims
\* Whether the risk-analysis stage has completed in this state.
RiskStageDone ==
    \/ pc \in {"generate_summary", "generate_summary_loop",
               "enhance_recommendations", "END", "returned"}
    \/ pc = "fn_done"

\* C1: the fairness score is an integer between 0 and 100 in every state of
\* the pipeline and after every direct call of the scorer, on any findings
\* maps; the returned result carries a score in that range too.
C1_ScoreInRange ==
    /\ state.fairness_score \in 0..100
    /\ result # Absent => result[1].fairness_score \in 0..100

\* C1 witness: a returned analysis whose deductions exceed 100, so that the
\* score is 0 only by the clamp.
C1_Witness ==
    /\ pc = "returned"
    /\ result[1].fairness_score = 0
    /\ TableSum(risk_deductions, DOMAIN state.risk_analysis) > 100

\* A collaborator call that failed: it raised, returned no response, or
\* returned a response with empty content.
CallFailed(outcome) ==
    \/ outcome.kind \in {"raise", "none"}
    \/ outcome.kind = "response" /\ outcome.content = ""

StageOrder ==
    <<"parse_document", "analyze_risks", "generate_summary",
      "enhance_recommendations">>

\* The returned result holds every field, the structured ones computed from
\* the document.
ResultComplete ==
    /\ result # Absent
    /\ executed = StageOrder
    /\ LET r == result[1]
           risks == detect_risk_patterns(state.document_content)
           compliance == check_compliance(state.document_content)
       IN  /\ r.risk_analysis = risks
           /\ r.compliance_check = compliance
           /\ r.fairness_score = calculate_fairness_score(risks, compliance)
           /\ r.recommendations = generate_recommendations(risks, compliance)
           /\ r.recommendations # <<>>
           /\ r.enhanced_recommendations # <<>>
           /\ r.summary # ""

\* C2: whatever the collaborator does (absent, or each call succeeding,
\* raising or returning nothing), no exception leaves the run and the run
\* reaches its end with a complete result after all four stages.
C2_AlwaysCompletes ==
    /\ [](error = NoError /\ pc # "raised")
    /\ <>(pc = "returned" /\ ResultComplete)

\* C2 witness: all four stages have run, no collaborator call raised past
\* its handler, and the run ends with an exception raised while the result
\* is assembled.
C2_Witness ==
    /\ pc = "raised"
    /\ executed = StageOrder
    /\ error = ResultNotReadable
    /\ result = Absent
    /\ enhanced_recommendations # Absent

\* No advisory of the recommender applies: no known risk category is present
\* and none of the four frameworks it asks for is missing.
NoAdvisoryApplies ==
    /\ DOMAIN state.risk_analysis \cap RiskTypes = {}
    /\ {"gdpr", "ccpa", "fair_terms", "privacy_best_practices"}
           \subseteq DOMAIN state.compliance_check

HasEntry(seq, text) == \E i \in 1..Len(seq) : seq[i] = text

\* C3: once the risk stage has completed the recommendations are never
\* empty, in the pipeline and on any findings maps; the affirmative entry is
\* there exactly when no other advisory applies, and then it is alone.
C3_RecommendationsNonEmpty ==
    /\ RiskStageDone =>
           /\ state.recommendations # <<>>
           /\ HasEntry(state.recommendations, FairTermsRecommendation)
                  <=> NoAdvisoryApplies
           /\ HasEntry(state.recommendations, FairTermsRecommendation)
                  => state.recommendations = <<FairTermsRecommendation>>
    /\ result # Absent => result[1].recommendations # <<>>

\* C3 witness: a returned analysis whose only recommendation is the
\* affirmative entry.
C3_Witness ==
    /\ pc = "returned"
    /\ result[1].recommendations = <<FairTermsRecommendation>>

\* C4: the summary stage calls the collaborator at most 3 times; when the
\* third attempt has failed too the stage sets the fixed fallback summary
\* and the run goes on to the enhancement stage.
C4_SummaryRetries ==
    /\ [](/\ pc \in {"generate_summary", "generate_summary_loop",
                     "enhance_recommendations"} => llm_calls <= 3
          /\ pc = "generate_summary_loop" =>
                 llm_calls = count /\ (count > 0 => CallFailed(last_outcome)))
    /\ (pc = "generate_summary_loop" /\ llm_calls = 3)
           ~> (/\ pc = "enhance_recommendations"
               /\ state.summary = SummaryFailed
               /\ llm_calls = 3
               /\ error = NoError)

\* C4 witness: the enhancement stage is due after three failed attempts.
C4_Witness ==
    /\ pc = "enhance_recommendations"
    /\ llm_calls = 3
    /\ CallFailed(last_outcome)
    /\ state.summary = SummaryFailed

\* C5: when the enhancement stage's collaborator call fails, the stage
\* returns the recommendations of the risk stage unchanged and raises
\* nothing; the result carries them as enhanced_recommendations.
C5_EnhanceFallback ==
    (pc \in {"END", "returned"} /\ llm /\ CallFailed(last_outcome)) =>
        /\ enhanced_recommendations = Some(state.recommendations)
        /\ state.recommendations =
               generate_recommendations(state.risk_analysis,
                                        state.compliance_check)
        /\ error = NoError
        /\ result # Absent =>
               result[1].enhanced_recommendations = state.recommendations

\* C5 witness: the enhancement call returned a response with empty content.
C5_Witness ==
    /\ pc = "returned"
    /\ llm
    /\ last_outcome = [kind |-> "response", content |-> ""]
    /\ result[1].enhanced_recommendations = state.recommendations

\* C6: with the collaborator not configured, no call is ever made and no
\* pass of the retry loop runs; both stages substitute their fallback.
C6_NoCollaborator ==
    ~llm =>
        /\ llm_calls = 0
        /\ count = 0
        /\ last_outcome = NoCall
        /\ pc # "generate_summary_loop"
        /\ pc \in {"enhance_recommendations", "END", "returned"} =>
               state.summary = SummaryUnavailable
        /\ pc \in {"END", "returned"} =>
               enhanced_recommendations = Some(state.recommendations)

\* C6 witness: a returned run without collaborator.
C6_Witness ==
    /\ ~llm
    /\ pc = "returned"
    /\ result[1].summary = SummaryUnavailable

\* The result of a run on this document with the collaborator not configured.
NoLlmRun(content, document_type) ==
    LET s0 == LegalAgentState(content, document_type)
        s1 == ApplyUpdate(s0, parse_document(s0))
        s2 == ApplyUpdate(s1, analyze_risks(s1).update)
        s3 == ApplyUpdate(s2, [summary |-> SummaryUnavailable])
    IN  AnalysisResult(s3, Some(s3.recommendations), TRUE)

\* A returned run with the collaborator configured in which every call
\* failed: the three summary attempts and the enhancement call.
ExhaustedRun ==
    /\ pc = "returned"
    /\ llm
    /\ count = 3
    /\ llm_calls = 4
    /\ CallFailed(last_outcome)

\* C7 as stated: the run with every call failing returns what the run
\* without collaborator returns.
C7_SameAsUnconfigured ==
    ExhaustedRun =>
        result[1] = NoLlmRun(state.document_content, state.document_type)

\* C7 amended: the two runs agree on every field but the summary, which is
\* SummaryFailed after exhausted retries and SummaryUnavailable without
\* collaborator.
C7_SameButSummary ==
    /\ (pc = "returned" /\ ~llm) =>
           result[1] = NoLlmRun(state.document_content, state.document_type)
    /\ ExhaustedRun =>
           /\ result[1] =
                  [NoLlmRun(state.document_content, state.document_type)
                      EXCEPT !.summary = SummaryFailed]
           /\ result[1].summary #
                  NoLlmRun(state.document_content, state.document_type).summary

\* C7 witness: a returned run whose four calls all failed.
C7_Witness == ExhaustedRun /\ result[1].summary = SummaryFailed

\* C8: the stages run in the fixed order, each once: the nodes entered so
\* far are a prefix of the order, the node due is the next one, and a
\* stage's output is there only once the stage has run.
C8_StageOrder ==
    /\ Len(executed) <= Len(StageOrder)
    /\ executed = SubSeq(StageOrder, 1, Len(executed))
    /\ pc = "parse_document" => Len(executed) = 0
    /\ pc = "analyze_risks" => Len(executed) = 1
    /\ pc = "generate_summary" => Len(executed) = 2
    /\ pc \in {"generate_summary_loop", "enhance_recommendations"} =>
           Len(executed) = 3
    /\ pc \in {"END", "returned"} => executed = StageOrder
    /\ Len(executed) = 0 <=> state.parsed_document = Absent
    /\ Len(executed) < 2 => state.recommendations = <<>>
    /\ pc \in {"parse_document", "analyze_risks", "generate_summary",
               "generate_summary_loop"} => state.summary = ""
    /\ Len(executed) < 4 <=> enhanced_recommendations = Absent
    /\ pc = "returned" <=> result # Absent

\* C8 witness: a returned run, its four stages entered in order.
C8_Witness == pc = "returned" /\ executed = StageOrder /\ result # Absent

\* C9: the risk stage invoked on a state without parsed_document raises at
\* once: the state is left as it was, and no further call follows.
C9_RaisesWhenNotParsed ==
    [][/\ (executed' = Append(executed, "analyze_risks")
              /\ state.parsed_document = Absent) =>
              /\ error' = NotParsed
              /\ pc' = "raised"
              /\ state' = state
       /\ pc # "raised"]_vars

\* C9 witness: the call raised on a fresh state, which is unchanged.
C9_Witness ==
    /\ pc = "raised"
    /\ error = NotParsed
    /\ executed = <<"analyze_risks">>
    /\ state = LegalAgentState(state.document_content, state.document_type)

AddRecommendations ==
    <<"[add] Add GDPR compliance clauses for EU users",
      "[add] Add CCPA compliance for California users",
      "[add] Add fair dispute resolution process",
      "[add] Implement privacy by design principles">>

RECURSIVE OnceEach(_, _, _, _)
OnceEach(table, weights, keys, k) ==
    IF k > Len(table) THEN 0
    ELSE (IF table[k].type \in keys THEN weights[table[k].type] ELSE 0)
             + OnceEach(table, weights, keys, k + 1)

\* The risk stage of the pipeline, or a direct call of the scorer, has
\* filled in the score.
Scored == Len(executed) >= 2 \/ pc = "fn_done"

\* C11: the score is a function of the key sets alone: it equals the score
\* of any maps with the same keys and any other number of findings per key,
\* and holding several findings under a key changes nothing.
C11_ScoreByKeys ==
    Scored =>
        \A n \in 1..(MaxFindings + 1) :
            state.fairness_score =
                calculate_fairness_score(
                    FindingsMap(DOMAIN state.risk_analysis, n),
                    FindingsMap(DOMAIN state.compliance_check, n))

\* C11 witness: an analysed document with several findings under one risk
\* category and a score that no clamp decided.
C11_Witness ==
    /\ Len(executed) >= 2
    /\ \E k \in DOMAIN state.risk_analysis : Len(state.risk_analysis[k]) >= 2
    /\ state.fairness_score \in 1..99

\* C12: the score is 100 less the weights of the categories present plus
\* the bonuses of the frameworks present, clamped once at the end; all
\* categories and no framework give 0, no category and all frameworks 100.
C12_ScoreFormula ==
    Scored =>
        /\ state.fairness_score =
               Max(0, Min(100,
                   100 - OnceEach(RISK_PATTERNS, risk_deductions,
                                  DOMAIN state.risk_analysis, 1)
                       + OnceEach(COMPLIANCE_PATTERNS, compliance_bonuses,
                                  DOMAIN state.compliance_check, 1)))
        /\ (DOMAIN state.risk_analysis = RiskTypes
                /\ DOMAIN state.compliance_check = {}) =>
               state.fairness_score = 0
        /\ (DOMAIN state.risk_analysis = {}
                /\ DOMAIN state.compliance_check = Frameworks) =>
               state.fairness_score = 100

\* C12 witness: deductions above 100 and bonuses present, the score still
\* 0: a clamp between the two steps would have given more.
C12_Witness ==
    /\ pc = "fn_done"
    /\ DOMAIN state.risk_analysis = RiskTypes
    /\ DOMAIN state.compliance_check = Frameworks
    /\ state.fairness_score = 0

\* C13: the recommendations hold one advisory for each risk category
\* present and one for each of the five frameworks absent (and the
\* affirmative entry alone when there is none of either).
C13_OneAdvisoryEach ==
    Scored =>
        LET advisories ==
                Cardinality(DOMAIN state.risk_analysis \cap RiskTypes)
                    + Cardinality(Frameworks \ DOMAIN state.compliance_check)
        IN  IF advisories = 0
            THEN state.recommendations = <<FairTermsRecommendation>>
            ELSE /\ Len(state.recommendations) = advisories
                 /\ ~HasEntry(state.recommendations, FairTermsRecommendation)

\* C13 witness: only the coppa framework is absent and no risk is present,
\* and the recommender reports fair terms with no advisory for coppa.
C13_Witness ==
    /\ pc = "fn_done"
    /\ DOMAIN state.risk_analysis = {}
    /\ DOMAIN state.compliance_check = Frameworks \ {"coppa"}
    /\ state.recommendations = <<FairTermsRecommendation>>

\* C14: once the risk stage has completed, no later step changes the
\* findings, the score or the recommendations, whether the later stages
\* succeed, fall back or exhaust their retries; a returned result carries
\* them as the risk stage left them.
C14_EarlierResultsKept ==
    [][Len(executed) >= 2 =>
           /\ state'.risk_analysis = state.risk_analysis
           /\ state'.compliance_check = state.compliance_check
           /\ state'.fairness_score = state.fairness_score
           /\ state'.recommendations = state.recommendations
           /\ state'.parsed_document = state.parsed_document
           /\ result' # Absent =>
                  /\ result'[1].risk_analysis = state.risk_analysis
                  /\ result'[1].compliance_check = state.compliance_check
                  /\ result'[1].fairness_score = state.fairness_score
                  /\ result'[1].recommendations = state.recommendations]_vars

\* C14 witness: a run returned after the summary retries were exhausted and
\* the enhancement call raised, its findings and recommendations in place.
C14_Witness ==
    /\ pc = "returned"
    /\ state.summary = SummaryFailed
    /\ last_outcome.kind = "raise"
    /\ state.risk_analysis # EmptyMap
    /\ state.risk_analysis = detect_risk_patterns(state.document_content)
    /\ result[1].recommendations = state.recommendations
    /\ state.recommendations # <<>>

\* The categories of a table whose rules match somewhere in the text.
MatchedTypes(content, table) ==
    {table[k].type : k \in {i \in 1..Len(table) :
        \E r \in 1..Len(table[i].patterns), l \in 1..Len(content) :
            \E s \in 1..Len(content[l]) :
                MatchStartsAt(table[i].patterns[r], content[l], s)}}

\* C15: in the findings maps the risk stage stores, every key holds at
\* least one finding, and the keys are exactly the categories and
\* frameworks with a match in the text.
C15_NoEmptyEntries ==
    Len(executed) >= 2 =>
        /\ \A k \in DOMAIN state.risk_analysis :
               Len(state.risk_analysis[k]) >= 1
        /\ \A k \in DOMAIN state.compliance_check :
               Len(state.compliance_check[k]) >= 1
        /\ DOMAIN state.risk_analysis =
               MatchedTypes(state.document_content, RISK_PATTERNS)
        /\ DOMAIN state.compliance_check =
               MatchedTypes(state.document_content, COMPLIANCE_PATTERNS)

\* C15 witness: the risk stage has just run on a text that matches some
\* categories and frameworks and not others.
C15_Witness ==
    /\ pc = "generate_summary"
    /\ DOMAIN state.risk_analysis \notin {{}, RiskTypes}
    /\ DOMAIN state.compliance_check \notin {{}, Frameworks}
    /\ DOMAIN state.risk_analysis =
           MatchedTypes(state.document_content, RISK_PATTERNS)

\* The non-blank lines of a text, in order.
NonBlank(content) == SelectSeq(content, LAMBDA line : line # <<>>)

\* The sections of the parsed document, once the segmenter has run.
Segmented == state.parsed_document # Absent

Sections == state.parsed_document[1].sections

NoHeaderLine ==
    \A i \in 1..Len(state.document_content) :
        ~is_header(state.document_content[i])

RECURSIVE SectionLines(_, _)
SectionLines(sections, k) ==
    IF k > Len(sections) THEN <<>>
    ELSE (IF sections[k].title = IntroductionTitle THEN <<>>
          ELSE <<sections[k].title>>)
             \o sections[k].content
             \o SectionLines(sections, k + 1)

\* C17: the sections, read in order, give back the non-blank lines of the
\* text, each once and in the order of the text.
C17_SectionsPartition ==
    Segmented => SectionLines(Sections, 1) = NonBlank(state.document_content)

\* C17 witness: a text of two header lines, segmented into no section at
\* all: both lines are lost.
C17_Witness ==
    /\ Segmented
    /\ Len(state.document_content) = 2
    /\ is_header(state.document_content[1])
    /\ is_header(state.document_content[2])
    /\ Sections = <<>>

\* A text of blank lines only (the empty string is one blank line).
BlankDocument == NonBlank(state.document_content) = <<>>

\* C18 as stated: on an empty or blank text the segmenter raises nothing
\* and yields a single section.
C18_BlankOneSection ==
    BlankDocument =>
        /\ error \in {NoError, ResultNotReadable}
        /\ Segmented => Len(Sections) = 1

\* C18 amended: on an empty or blank text the segmenter raises nothing and
\* yields no section.
C18_BlankNoSection ==
    BlankDocument =>
        /\ error \in {NoError, ResultNotReadable}
        /\ pc # "parse_document" => Segmented
        /\ Segmented => Sections = <<>>

\* C18 witness: a text of two blank lines has been segmented, into nothing.
C18_Witness ==
    /\ pc = "analyze_risks"
    /\ state.document_content = << <<>>, <<>> >>
    /\ Segmented
    /\ Sections = <<>>
    /\ error = NoError

\* The number of entries of a sequence equal to x.
Occurrences(seq, x) == Cardinality({i \in 1..Len(seq) : seq[i] = x})

SoloResults(content, document_type, handle) ==
    LET base == NoLlmRun(content, document_type)
    IN  IF ~handle THEN {base}
        ELSE {[base EXCEPT !.summary = s, !.enhanced_recommendations = e] :
                 s \in Responses \cup {SummaryFailed},
                 e \in {base.recommendations}
                          \cup {base.recommendations \o <<c>> : c \in Responses}}

\* A call's locals are those of a run on its own text.
OwnRun(call) ==
    /\ call.state.document_content = call.content
    /\ call.executed = SubSeq(StageOrder, 1, Len(call.executed))
    /\ Len(call.executed) >= 1 =>
           call.state.parsed_document =
               parse_document(LegalAgentState(call.content,
                                              call.state.document_type))
                   .parsed_document
    /\ Len(call.executed) >= 2 =>
           /\ call.state.risk_analysis = AnalysisOf[call.content].risk_analysis
           /\ call.state.compliance_check =
                  AnalysisOf[call.content].compliance_check
    /\ call.result # Absent =>
           call.result[1] \in SoloResults(call.content,
                                          call.state.document_type, llm)
    /\ call.error \in {NoError, ResultNotReadable}

\* C20: with two analyses interleaved in any order, each works on its own
\* text throughout, its stages in order, and returns a result it can return
\* when run alone.
C20_NoInterference ==
    peer # Absent =>
        /\ OwnRun(RunningCall)
        /\ OwnRun(peer[1].suspended)

\* C20 witness: two interleaved analyses of different texts have both
\* returned, each with the findings of its own text.
C20_Witness ==
    /\ peer # Absent
    /\ pc = "returned"
    /\ peer[1].suspended.pc = "returned"
    /\ peer[1].suspended.content # peer[1].running_content
    /\ result[1].risk_analysis # peer[1].suspended.result[1].risk_analysis
    /\ result[1].risk_analysis =
           AnalysisOf[peer[1].running_content].risk_analysis

\* Every advisory in the fixed order: the advisory of each risk category in
\* the order of the category table, then the four missing-framework
\* advisories.
AdvisoryOrder ==
    [k \in 1..Len(RISK_PATTERNS) |->
        RiskRecommendations(FindingsMap({RISK_PATTERNS[k].type}, 1))[1]]
    \o AddRecommendations

Rank(text) == CHOOSE i \in 1..Len(AdvisoryOrder) : AdvisoryOrder[i] = text

\* C21: the recommendations are advisories in the fixed order (risk
\* advisories in category order, then the missing-framework advisories in
\* framework order), and maps with the same keys give the same sequence.
C21_FixedOrder ==
    Scored =>
        /\ state.recommendations # <<FairTermsRecommendation>> =>
               /\ \A i \in 1..Len(state.recommendations) :
                      HasEntry(AdvisoryOrder, state.recommendations[i])
               /\ \A i \in 1..(Len(state.recommendations) - 1) :
                      Rank(state.recommendations[i])
                          < Rank(state.recommendations[i + 1])
        /\ state.recommendations =
               generate_recommendations(
                   FindingsMap(DOMAIN state.risk_analysis, MaxFindings + 1),
                   FindingsMap(DOMAIN state.compliance_check, MaxFindings + 1))

\* C21 witness: the last and the first risk category are present and a
\* framework is missing: the first category's advisory leads, the last
\* category's follows, the framework advisory closes.
C21_Witness ==
    /\ pc = "fn_done"
    /\ DOMAIN state.risk_analysis =
           {"lack_of_user_control", "mandatory_arbitration"}
    /\ DOMAIN state.compliance_check = Frameworks \ {"fair_terms"}
    /\ Len(state.recommendations) = 3
    /\ state.recommendations[1] = AdvisoryOrder[1]
    /\ state.recommendations[2] = AdvisoryOrder[Len(RISK_PATTERNS)]
    /\ state.recommendations[3] = AddRecommendations[3]

\* A line of upper-case words only.
AllUppercase(line) ==
    /\ line # <<>>
    /\ \A i \in 1..Len(line) : WordClass(line[i]) = "upper"

\* A line that goes into the content of a section.
BodyLine(line) == line # <<>> /\ ~is_header(line)

\* C22: a non-blank line is a header exactly when it is an enumerator with
\* a title, an all-uppercase line, or a capitalized phrase ending in a
\* colon; an all-uppercase line followed by a body line starts a section
\* titled with that line.
C22_HeaderClasses ==
    Segmented =>
        \A i \in 1..Len(state.document_content) :
            LET line == state.document_content[i]
            IN  /\ line # <<>> =>
                       (is_header(line) <=>
                            \/ NumberedHeader(line)
                            \/ AllUppercase(line)
                            \/ TitleColonHeader(line))
                /\ (/\ AllUppercase(line)
                    /\ i < Len(state.document_content)
                    /\ BodyLine(state.document_content[i + 1]))
                       => \E k \in 1..Len(Sections) : Sections[k].title = line

\* C22 witness: an all-uppercase line followed by a body line has been
\* segmented into the one Introduction section, the upper-case line in its
\* content.
C22_Witness ==
    /\ Segmented
    /\ Len(state.document_content) = 2
    /\ AllUppercase(state.document_content[1])
    /\ BodyLine(state.document_content[2])
    /\ Sections = <<[title   |-> IntroductionTitle,
                     content |-> state.document_content]>>

\* The positions, among the non-blank lines, where a run of body lines
\* starts: a body line that is the first line or follows a header.
BodyRunStarts(content) ==
    LET lines == NonBlank(content)
    IN  {i \in 1..Len(lines) :
            /\ BodyLine(lines[i])
            /\ i = 1 \/ is_header(lines[i - 1])}

\* C23: every section has a body of non-blank lines, and there is one
\* section per run of body lines: a header followed by another header or by
\* the end of the text gives no section.
C23_NoEmptySection ==
    Segmented =>
        /\ \A k \in 1..Len(Sections) :
               /\ Sections[k].content # <<>>
               /\ \A j \in 1..Len(Sections[k].content) :
                      Sections[k].content[j] # <<>>
        /\ Len(Sections) =
               Cardinality(BodyRunStarts(state.document_content))

\* C23 witness: a body line and then a header at the end of the text: the
\* Introduction section is flushed at the header, the header's own section
\* is not emitted.
C23_Witness ==
    /\ Segmented
    /\ Len(state.document_content) = 2
    /\ BodyLine(state.document_content[1])
    /\ is_header(state.document_content[2])
    /\ Sections = <<[title   |-> IntroductionTitle,
                     content |-> <<state.document_content[1]>>]>>

\* The matches of the rules of a category in a text: rule k, line i, n-th
\* match of the rule on the line.
MatchSet(content, patterns) ==
    UNION {{<<k, i, n>> : n \in 1..Len(LineMatches(patterns[k], content[i], 1))} :
              k \in 1..Len(patterns), i \in 1..Len(content)}

\* The window of the text around match <<k, i, n>>: `window` characters
\* before its start and after its end, clamped to the text.
WindowOf(content, patterns, km, window) ==
    LET m == LineMatches(patterns[km[1]], content[km[2]], 1)[km[3]]
    IN  <<Max(0, WordStart(content, km[2], m.first) - window),
          Min(ContentLen(content), WordEnd(content, km[2], m.last) + window)>>

RisksScanned == pc \in {"scan_risks", "scan_done"}

\* A findings map measured against the matches of the state's text: one
\* finding per match of a rule of the table, and the contexts of a category
\* are the given function of the windows of its matches.
FindingsAre(found, table, window, ContextOf(_)) ==
    \A c \in 1..Len(table) :
        LET t == table[c].type
            ms == MatchSet(state.document_content, table[c].patterns)
        IN  /\ t \in DOMAIN found <=> ms # {}
            /\ t \in DOMAIN found =>
                   /\ Len(found[t]) = Cardinality(ms)
                   /\ {found[t][n].context : n \in 1..Len(found[t])}
                        = {ContextOf(WindowOf(state.document_content,
                                              table[c].patterns,
                                              km, window)) : km \in ms}

SameWindow(w) == w

StrippedWindow(w) == Strip(state.document_content, w[1], w[2])

\* C24 as stated: every match of a risk rule gives exactly one finding, and
\* its context is the text from 100 characters before the match to 100
\* characters after it, clamped to the text.
C24_ContextWindow ==
    RisksScanned =>
        FindingsAre(state.risk_analysis, RISK_PATTERNS, 100, SameWindow)

\* C24 amended: every match of a risk rule gives exactly one finding, and
\* its context is the text from 100 characters before the match to 100
\* characters after it, clamped to the text, without the whitespace at the
\* two ends of that window.
C24_StrippedContextWindow ==
    RisksScanned =>
        FindingsAre(state.risk_analysis, RISK_PATTERNS, 100, StrippedWindow)

\* C24 witness: a text of three lines with a match in the first and in the
\* last line: one window is cut at the start of the text and ends inside
\* it, the other starts inside the text and is cut at its end.
C24_Witness ==
    /\ RisksScanned
    /\ Len(state.document_content) = 3
    /\ "no_refunds" \in DOMAIN state.risk_analysis
    /\ Len(state.risk_analysis["no_refunds"]) = 2
    /\ LET first == state.risk_analysis["no_refunds"][1].context
           last == state.risk_analysis["no_refunds"][2].context
           length == ContentLen(state.document_content)
       IN  /\ first[1] = 0 /\ first[2] < length
           /\ last[1] > 0 /\ last[2] = length

\* What the procedure of the risk detector returns when it is given the
\* table of the compliance frameworks and the state's text.
AsRiskDetector ==
    ScanTable(state.document_content, COMPLIANCE_PATTERNS, RiskWindow)

\* A findings map without the contexts of its findings.
WithoutContext(found) ==
    [t \in DOMAIN found |->
        [n \in 1..Len(found[t]) |->
            [pattern |-> found[t][n].pattern, match |-> found[t][n].match]]]

\* C25 as stated: on the same table and the same text the compliance
\* detector returns what the risk detector returns, contexts included.
C25_SameFindings ==
    pc = "scan_done" => state.compliance_check = AsRiskDetector

\* C25 amended: on the same table and the same text the compliance
\* detector returns the findings the risk detector returns, one per match
\* and in the same order, but with contexts of 50 characters around the
\* match where the risk detector takes 100.
C25_SameButWindow ==
    pc = "scan_done" =>
        /\ WithoutContext(state.compliance_check) = WithoutContext(AsRiskDetector)
        /\ FindingsAre(state.compliance_check, COMPLIANCE_PATTERNS, 50,
                       StrippedWindow)
        /\ \A t \in DOMAIN state.compliance_check :
               \A n \in 1..Len(state.compliance_check[t]) :
                   /\ state.compliance_check[t][n].context[1]
                          >= AsRiskDetector[t][n].context[1]
                   /\ state.compliance_check[t][n].context[2]
                          <= AsRiskDetector[t][n].context[2]

\* C25 witness: a framework with two findings, the first with a context
\* that ends before the context the risk detector would take.
C25_Witness ==
    /\ pc = "scan_done"
    /\ "gdpr" \in DOMAIN state.compliance_check
    /\ Len(state.compliance_check["gdpr"]) = 2
    /\ state.compliance_check["gdpr"][1].context[2]
           < AsRiskDetector["gdpr"][1].context[2]

\* A step of the summary loop that calls the collaborator.
SummaryCall ==
    pc = "generate_summary_loop" /\ llm_calls' = llm_calls + 1

\* C26: a summary attempt that returns a non-empty response sets the summary
\* to the response text and leaves the stage, so no further call is made for
\* the summary; an attempt that raises or returns an empty or absent
\* response changes nothing but the attempt counter, which it advances by
\* one of the 3 attempts.
C26_StopsAtFirstSuccess ==
    /\ [][SummaryCall =>
              IF CallFailed(last_outcome')
              THEN /\ count' = count + 1
                   /\ count' <= _MAX_LLM_RETRIES
                   /\ pc' = "generate_summary_loop"
                   /\ state' = state
              ELSE /\ state'.summary = last_outcome'.content
                   /\ state'.summary \in Responses
                   /\ pc' = "enhance_recommendations"
                   /\ count' = count]_vars
    /\ []((pc = "enhance_recommendations" /\ llm) =>
              \/ state.summary \in Responses /\ llm_calls = count + 1
              \/ /\ state.summary = SummaryFailed
                 /\ llm_calls = count
                 /\ count = _MAX_LLM_RETRIES)

\* C26 witness: the first attempt failed and the second returned a text: the
\* stage is left after two calls with that text as summary.
C26_Witness ==
    /\ pc = "enhance_recommendations"
    /\ llm
    /\ count = 1
    /\ llm_calls = 2
    /\ state.summary \in Responses
    /\ state.summary = last_outcome.content

\* A step that calls the collaborator.
LlmCall == llm_calls' # llm_calls

\* C27: the enhancement stage makes at most one collaborator call and is
\* left after it, whatever the call gave; a run makes at most 4 calls, at
\* most 3 of them before the enhancement stage; and every call is made
\* after the risk stage has run and returned.
C27_CallBudget ==
    /\ [](/\ llm_calls <= _MAX_LLM_RETRIES + 1
          /\ pc \notin {"END", "returned", "raised"} =>
                 llm_calls <= _MAX_LLM_RETRIES)
    /\ [][pc = "enhance_recommendations" =>
              /\ llm_calls' \in {llm_calls, llm_calls + 1}
              /\ pc' # "enhance_recommendations"]_vars
    /\ [][LlmCall =>
              /\ llm_calls' = llm_calls + 1
              /\ Len(executed) >= 2
              /\ executed[2] = "analyze_risks"
              /\ pc \in {"generate_summary_loop", "enhance_recommendations"}
              /\ state.recommendations =
                     AnalysisOf[state.document_content].recommendations]_vars

\* C27 witness: a run that made four calls, three failed ones for the
\* summary and one for the enhancement.
C27_Witness ==
    /\ pc = "END"
    /\ llm_calls = _MAX_LLM_RETRIES + 1
    /\ count = _MAX_LLM_RETRIES
    /\ state.summary = SummaryFailed
    /\ last_outcome.kind = "raise"

\* The enhancement stage has run with a call that returned a text.
EnhancedByResponse ==
    /\ enhanced_recommendations # Absent
    /\ llm
    /\ last_outcome.kind = "response"
    /\ last_outcome.content # ""

\* C28: after an enhancement call that returned a non-empty response, the
\* enhanced recommendations are the recommendations of the risk stage, in
\* their order, followed by one entry, the response text; the stage leaves
\* the recommendations of the state as the risk stage set them.
C28_OneExtraEntry ==
    /\ [](EnhancedByResponse =>
              /\ enhanced_recommendations =
                     Some(Append(state.recommendations, last_outcome.content))
              /\ state.recommendations =
                     AnalysisOf[state.document_content].recommendations)
    /\ [][pc = "enhance_recommendations" => state' = state]_vars

\* C28 witness: several recommendations of the risk stage, and the enhanced
\* list one entry longer, ending with the response text.
C28_Witness ==
    /\ pc = "END"
    /\ EnhancedByResponse
    /\ Len(state.recommendations) >= 2
    /\ Len(enhanced_recommendations[1]) = Len(state.recommendations) + 1
    /\ enhanced_recommendations[1][Len(state.recommendations) + 1]
           = "narrative B"

\* The score of the state's findings maps with one more risk key, and with
\* one more framework key.
ScoreWithRisk(t) ==
    calculate_fairness_score(
        FindingsMap(DOMAIN state.risk_analysis \cup {t}, 1),
        state.compliance_check)

ScoreWithFramework(f) ==
    calculate_fairness_score(
        state.risk_analysis,
        FindingsMap(DOMAIN state.compliance_check \cup {f}, 1))

\* C29: adding a risk key to the risk findings never raises the score and
\* adding a framework key to the compliance findings never lowers it; a key
\* that the deduction or bonus table does not hold leaves it as it is.
C29_ScoreMonotone ==
    pc = "score_done" =>
        /\ \A t \in ScoreRiskKeys :
               /\ ScoreWithRisk(t) <= state.fairness_score
               /\ t \notin DOMAIN risk_deductions =>
                      ScoreWithRisk(t) = state.fairness_score
        /\ \A f \in ScoreFrameworkKeys :
               /\ ScoreWithFramework(f) >= state.fairness_score
               /\ f \notin DOMAIN compliance_bonuses =>
                      ScoreWithFramework(f) = state.fairness_score
        /\ state.fairness_score =
               calculate_fairness_score(
                   FindingsMap(DOMAIN state.risk_analysis
                                   \cap DOMAIN risk_deductions, 1),
                   FindingsMap(DOMAIN state.compliance_check
                                   \cap DOMAIN compliance_bonuses, 1))

\* C29 witness: a score strictly inside the range, computed from maps that
\* hold listed and unlisted keys, which one more listed risk lowers and one
\* more listed framework raises.
C29_Witness ==
    /\ pc = "score_done"
    /\ "unlisted_risk" \in DOMAIN state.risk_analysis
    /\ "unlisted_framework" \in DOMAIN state.compliance_check
    /\ "no_refunds" \notin DOMAIN state.risk_analysis
    /\ "gdpr" \notin DOMAIN state.compliance_check
    /\ ScoreWithRisk("no_refunds") < state.fairness_score
    /\ ScoreWithFramework("gdpr") > state.fairness_score

\* The latest message of a ResearcherState.
LastMessage(st) == st.messages[Len(st.messages)]

\* An agent step that returned a response.
AgentReturned == pc = "agent" /\ Len(executed') > Len(executed)

\* A tools step that returned.
ToolsReturned == pc = "tools" /\ Len(executed') > Len(executed)

\* C30: after an agent step the tools node is due iff the latest message
\* carries a tool call, and END otherwise; after a tools step the agent
\* node is due; END is reached only from an agent step whose response has
\* no tool call; a tools step appends one tool message per tool call of
\* the latest message, in call order.
C30_ResearcherRouting ==
    /\ [][AgentReturned =>
              /\ LastMessage(state').role = "assistant"
              /\ pc' = IF Len(LastMessage(state').tool_calls) >= 1
                       THEN "tools" ELSE "END"]_vars
    /\ [][ToolsReturned =>
              LET calls == LastMessage(state).tool_calls
                  n == Len(state.messages)
              IN  /\ pc' = "agent"
                  /\ Len(state'.messages) = n + Len(calls)
                  /\ SubSeq(state'.messages, 1, n) = state.messages
                  /\ \A k \in 1..Len(calls) :
                         /\ state'.messages[n + k].role = "tool"
                         /\ state'.messages[n + k].name = calls[k].name
                         /\ state'.messages[n + k].tool_call_id = calls[k].id]_vars
    /\ [][pc = "tools" => pc' \in {"agent", "raised"}]_vars
    /\ [][(pc' = "END" /\ pc # "END") => AgentReturned]_vars
    /\ [](pc = "END" =>
              /\ executed[Len(executed)] = "agent"
              /\ LastMessage(state).role = "assistant"
              /\ LastMessage(state).tool_calls = <<>>)

\* C30 witness: a run that ended after an agent step, a tools step that
\* answered two tool calls in their order, and a second agent step whose
\* response carried no tool call.
C30_Witness ==
    /\ pc = "END"
    /\ executed = <<"agent", "tools", "agent">>
    /\ Len(state.messages) = 5
    /\ Len(state.messages[2].tool_calls) = 2
    /\ state.messages[2].tool_calls[1].name = "search_legal_precedents"
    /\ state.messages[2].tool_calls[2].name = "search_tavily"
    /\ state.messages[3].name = "search_legal_precedents"
    /\ state.messages[3].tool_call_id = 1
    /\ state.messages[4].name = "search_tavily"
    /\ state.messages[4].tool_call_id = 2
    /\ state.messages[5].tool_calls = <<>>

====
